---- MODULE Spec2Model ----
(***************************************************************************)
(* HubSpaceAuth (src/hubspace_async/auth.py): the OAuth2/PKCE login chain,  *)
(* the refresh-token and bearer-token caches and the asyncio.Lock that      *)
(* guards them, as a state machine.  One step of the model is one          *)
(* uninterrupted run of a coroutine between two suspension points (an      *)
(* awaited HTTP exchange or an awaited lock), which is the unit asyncio     *)
(* interleaves.                                                            *)
(***************************************************************************)
EXTENDS Integers, Sequences, FiniteSets, TLC

\* ------------------------------------------------------------------ bounds
NumCallers == 2
MaxTicks == 3
MaxPairs == 4

\* --------------------------------------------------------------- constants
TOKEN_TIMEOUT == 118

\* The clock advances in steps of half the token lifetime, so that a cached
\* Token is seen before, exactly at and after its expiration.
TickStep == TOKEN_TIMEOUT \div 2

\* Each caller is one call of token(client) on the one HubSpaceAuth instance;
\* the calls are numbered in the order they are made.
Callers == 1..NumCallers

\* Optional[...]: None, or a one-element sequence holding the value.
None == <<>>
Some(x) == <<x>>

\* Strings a server may put in a field; "" is the falsy one.
Strings == {"", "A", "B"}

\* Final status of an exchange as the client sees it.
Statuses == {200, 302, 404}

Ok(v) == [ok |-> TRUE, val |-> v]
Err(e) == [ok |-> FALSE, err |-> e]

\* ------------------------------------------------------------ pure helpers

\* A query string is a sequence of [k, v] pairs.  parse_qs drops the pairs
\* with a blank value (keep_blank_values=False) and maps each remaining key
\* to the list of its values, in order.
QueryValues(q, k) ==
  LET hits == SelectSeq(q, LAMBDA p : p.k = k /\ p.v # "")
  IN [i \in DOMAIN hits |-> hits[i].v]

parse_qs(q) ==
  LET keys == {q[i].k : i \in {j \in DOMAIN q : q[j].v # ""}}
  IN [k \in keys |-> QueryValues(q, k)]

\* Query strings of at most n pairs over the given keys.
Queries(keys, n) == UNION {[1..m -> [k : keys, v : Strings]] : m \in 0..n}

\* python truthiness of Optional[str]
truthy(s) == s # None /\ s[1] # ""

raise_for_status_skipped(status) == FALSE

\* aiohttp ClientResponse.raise_for_status raises iff status >= 400
raise_for_status_raises(status) == status >= 400

is_expired_strict(td, t) == td = None \/ t > td[1].expiration

\* HubSpaceAuth.is_expired
is_expired(td, t) == td = None \/ t >= td[1].expiration

\* generate_challenge_data: the verifier is random, the challenge its digest.
Verifiers == {"v1", "v2"}
code_challenge_of(v) == IF v = "v1" THEN "c1" ELSE "c2"
generate_challenge_data == {[challenge |-> code_challenge_of(v), verifier |-> v] : v \in Verifiers}

\* -------------------------------------------------------------- responses

\* Login page: whether the element with id kc-form-login is there, and its
\* action attribute (None when missing) as the query string of the URL.
SessionKeys == <<"session_code", "execution", "tab_id">>
PageQuery(f) ==
  LET present == SelectSeq(SessionKeys, LAMBDA k : f[k] # None)
  IN [i \in DOMAIN present |-> [k |-> present[i], v |-> f[present[i]][1]]]
PageValues(k) == IF k = "session_code" THEN Strings ELSE {"", "A"}
PageQueries ==
  {PageQuery(f) : f \in {g \in [{"session_code", "execution", "tab_id"} -> {None} \cup {Some(v) : v \in Strings}] :
                           \A k \in DOMAIN g : g[k] = None \/ g[k][1] \in PageValues(k)}}
Pages ==
  {[form |-> FALSE, action |-> None], [form |-> TRUE, action |-> None]}
  \cup {[form |-> TRUE, action |-> Some(q)] : q \in PageQueries}
AuthResponses == [status : Statuses, page : Pages]

\* Redirect of the credential POST: the Location header (None when missing)
\* as the query string of its URL.
Locations == {None} \cup {Some(q) : q \in Queries({"code", "state"}, 2)}
CodeResponses == [status : Statuses, location : Locations]

\* Token endpoint: the JSON object of the body (None when the body is no JSON).
JsonKeys == {"refresh_token", "id_token"}
JsonValues(k) == IF k = "refresh_token" THEN {"", "A"} ELSE {"A", "B"}
Jsons == UNION {{j \in [S -> Strings] : \A k \in S : j[k] \in JsonValues(k)} : S \in SUBSET JsonKeys}
TokenResponses == [status : Statuses, json : {None} \cup {Some(j) : j \in Jsons}]

extract_login_data_last_value(page) ==
  IF ~page.form THEN Err("InvalidResponse")
  ELSE IF page.action = None THEN Err("InvalidResponse")
  ELSE LET login_data == parse_qs(page.action[1])
       IN IF {"session_code", "execution", "tab_id"} \subseteq DOMAIN login_data
          THEN Ok([session_code |-> login_data["session_code"][Len(login_data["session_code"])],
                   execution |-> login_data["execution"][Len(login_data["execution"])],
                   tab_id |-> login_data["tab_id"][Len(login_data["tab_id"])]])
          ELSE Err("InvalidResponse")

\* extract_login_data
extract_login_data(page) ==
  IF ~page.form THEN Err("InvalidResponse")
  ELSE IF page.action = None THEN Err("InvalidResponse")
  ELSE LET login_data == parse_qs(page.action[1])
       IN IF {"session_code", "execution", "tab_id"} \subseteq DOMAIN login_data
          THEN Ok([session_code |-> login_data["session_code"][1],
                   execution |-> login_data["execution"][1],
                   tab_id |-> login_data["tab_id"][1]])
          ELSE Err("InvalidResponse")

webapp_login_any_status(response) == extract_login_data(response.page)

\* webapp_login, from the response of the authorization GET to the login data
webapp_login(response) ==
  IF raise_for_status_raises(response.status) THEN Err("ClientResponseError")
  ELSE extract_login_data(response.page)

generate_code_any_status(response) ==
  IF response.location = None THEN Err("InvalidAuth")
  ELSE LET qs == parse_qs(response.location[1])
       IN IF "code" \in DOMAIN qs THEN Ok(qs["code"][1]) ELSE Err("InvalidAuth")

\* generate_code, from the response of the credential POST to the code
generate_code(response) ==
  IF response.status # 302 THEN Err("InvalidResponse")
  ELSE IF response.location = None THEN Err("InvalidAuth")
  ELSE LET qs == parse_qs(response.location[1])
       IN IF "code" \in DOMAIN qs THEN Ok(qs["code"][1]) ELSE Err("InvalidAuth")

generate_refresh_token_or_blank(response) ==
  IF raise_for_status_raises(response.status) THEN Err("ClientResponseError")
  ELSE IF response.json = None THEN Err("ClientResponseError")
  ELSE IF "refresh_token" \in DOMAIN response.json[1]
       THEN Ok(response.json[1]["refresh_token"])
       ELSE Ok("")

\* generate_refresh_token, from the response of the code-exchange POST
generate_refresh_token(response) ==
  IF raise_for_status_raises(response.status) THEN Err("ClientResponseError")
  ELSE IF response.json = None THEN Err("ClientResponseError")
  ELSE IF "refresh_token" \in DOMAIN response.json[1]
       THEN Ok(response.json[1]["refresh_token"])
       ELSE Err("InvalidResponse")

generate_token_response_lifetime(response, t) ==
  IF raise_for_status_raises(response.status) THEN Err("ClientResponseError")
  ELSE IF response.json = None THEN Err("ClientResponseError")
  ELSE IF "id_token" \in DOMAIN response.json[1]
       THEN Ok([token |-> response.json[1]["id_token"],
                expiration |-> IF "refresh_token" \in DOMAIN response.json[1]
                               THEN t + 2 * TOKEN_TIMEOUT ELSE t + TOKEN_TIMEOUT])
       ELSE Err("InvalidResponse")

\* generate_token, from the response of the refresh POST, read at time t
generate_token(response, t) ==
  IF raise_for_status_raises(response.status) THEN Err("ClientResponseError")
  ELSE IF response.json = None THEN Err("ClientResponseError")
  ELSE IF "id_token" \in DOMAIN response.json[1]
       THEN Ok([token |-> response.json[1]["id_token"], expiration |-> t + TOKEN_TIMEOUT])
       ELSE Err("InvalidResponse")

\* What each exchange can come to: the status of the response that arrived
\* and what the code makes of it, over every response.
AuthOutcomes == {[status |-> r.status, result |-> webapp_login(r)] : r \in AuthResponses}
CodeOutcomes == {[status |-> r.status, result |-> generate_code(r)] : r \in CodeResponses}
RefreshTokenOutcomes == {[status |-> r.status, result |-> generate_refresh_token(r)] : r \in TokenResponses}
TokenOutcomes(t) == {[status |-> r.status, result |-> generate_token(r, t)] : r \in TokenResponses}

\* ------------------------------------------------------------------ state
VARIABLES
  now,            \* datetime.datetime.now().timestamp()
  locked,         \* _async_lock._locked
  waiters,        \* _async_lock._waiters, first in first out
  refresh_token,  \* _refresh_token
  token_data,     \* _token_data
  pc,             \* where each caller's token() coroutine stands
  challenge,      \* perform_initial_login's local `challenge`
  code_challenge, \* the code_challenge each caller's login attempt put in its GET
  request,        \* the HTTP request each caller has in flight
  sent,           \* the requests each caller's call has issued, in order
  entry,          \* what each caller's call found cached when it took the lock
  late,           \* whether the call arrived while another call's exchange was in flight
  err,            \* the exception each caller's call ended with
  ret,            \* the bearer string each caller's call returned
  last,           \* the response handled last: by whom, at which step, its status,
                  \* and what the code made of it
  response,       \* a response (or page) handed to one of the parsing functions alone
  outcome         \* what that function made of `response`

vars == <<now, locked, waiters, refresh_token, token_data, pc, challenge, code_challenge,
          request, sent, entry, late, err, ret, last, response, outcome>>

NoRequest == [kind |-> "none"]
NoResponse == [by |-> 0, step |-> "none", status |-> 0, result |-> Err("none")]

Init ==
  /\ now = 0
  /\ locked = FALSE
  /\ waiters = <<>>
  /\ refresh_token = None
  /\ token_data = None
  /\ pc = [c \in Callers |-> "idle"]
  /\ challenge = [c \in Callers |-> None]
  /\ code_challenge = [c \in Callers |-> None]
  /\ request = [c \in Callers |-> NoRequest]
  /\ sent = [c \in Callers |-> <<>>]
  /\ entry = [c \in Callers |-> "none"]
  /\ late = [c \in Callers |-> FALSE]
  /\ err = [c \in Callers |-> "none"]
  /\ ret = [c \in Callers |-> None]
  /\ last = NoResponse
  /\ response = None
  /\ outcome = None

\* ---------------------------------------------------------------- helpers

\* asyncio.Lock.acquire takes the lock at once when it is free and nobody
\* queues for it; otherwise the caller queues.
acquire_at_once_unguarded == TRUE
acquire_at_once == ~locked /\ waiters = <<>>

Steps == {"get", "cred", "code", "refresh"}
LoginSteps == {"get", "cred", "code"}
Holders == {c \in Callers : pc[c] \in Steps}
InFlight == {c \in Callers : request[c].kind # "none"}

\* What a call finds in the Token cache.
token_state(td, t) ==
  IF td = None THEN "absent" ELSE IF is_expired(td, t) THEN "expired" ELSE "valid"

\* The caller issues HTTP request r and suspends on it, keeping the lock.
Issue(c, r) ==
  /\ request' = [request EXCEPT ![c] = r]
  /\ sent' = [sent EXCEPT ![c] = Append(@, r.kind)]
  /\ pc' = [pc EXCEPT ![c] = r.kind]
  /\ locked' = TRUE
  /\ UNCHANGED <<err, ret>>

Raise_keeps_lock(c, e) ==
  /\ pc' = [pc EXCEPT ![c] = "done"]
  /\ err' = [err EXCEPT ![c] = e]
  /\ request' = [request EXCEPT ![c] = NoRequest]
  /\ challenge' = [challenge EXCEPT ![c] = None]
  /\ code_challenge' = [code_challenge EXCEPT ![c] = None]
  /\ UNCHANGED <<locked, refresh_token, token_data, sent, ret, waiters>>

\* An exception leaves `async with self._async_lock`: the lock is released
\* and the call ends with the exception, the caches as they were.
Raise(c, e) ==
  /\ pc' = [pc EXCEPT ![c] = "done"]
  /\ err' = [err EXCEPT ![c] = e]
  /\ request' = [request EXCEPT ![c] = NoRequest]
  /\ challenge' = [challenge EXCEPT ![c] = None]
  /\ code_challenge' = [code_challenge EXCEPT ![c] = None]
  /\ locked' = FALSE
  /\ UNCHANGED <<refresh_token, token_data, sent, ret, waiters>>

Return_read_before(c, td) ==
  /\ pc' = [pc EXCEPT ![c] = "done"]
  /\ ret' = [ret EXCEPT ![c] = Some(IF token_data = None THEN "" ELSE token_data[1].token)]
  /\ request' = [request EXCEPT ![c] = NoRequest]
  /\ locked' = FALSE
  /\ UNCHANGED <<err, sent>>

Return_keeps_lock(c, td) ==
  /\ pc' = [pc EXCEPT ![c] = "done"]
  /\ ret' = [ret EXCEPT ![c] = Some(td[1].token)]
  /\ request' = [request EXCEPT ![c] = NoRequest]
  /\ UNCHANGED <<locked, err, sent>>

\* The end of token(): the lock is released and the bearer string of the
\* cached Token (td, the cache as this step leaves it) is returned.
Return(c, td) ==
  /\ pc' = [pc EXCEPT ![c] = "done"]
  /\ ret' = [ret EXCEPT ![c] = Some(td[1].token)]
  /\ request' = [request EXCEPT ![c] = NoRequest]
  /\ locked' = FALSE
  /\ UNCHANGED <<err, sent>>

\* token(), lines 253-257, with rt the refresh token now cached.
check_token(c, rt) ==
  IF is_expired(token_data, now)
  THEN Issue(c, [kind |-> "refresh", refresh_token |-> rt[1]])
  ELSE Return(c, token_data)

\* token(), lines 251-257, run by the caller that has just taken the lock.
locked_body(c) ==
  /\ entry' = [entry EXCEPT ![c] = token_state(token_data, now)]
  /\ UNCHANGED <<refresh_token, token_data, now, last>>
  /\ IF ~truthy(refresh_token)
     THEN \E ch \in generate_challenge_data :
            /\ challenge' = [challenge EXCEPT ![c] = Some(ch)]
            /\ code_challenge' = [code_challenge EXCEPT ![c] = Some(ch.challenge)]
            /\ Issue(c, [kind |-> "get", code_challenge |-> ch.challenge])
     ELSE /\ check_token(c, refresh_token)
          /\ UNCHANGED <<challenge, code_challenge>>

\* A result whose value is a string, with the value as a record: `last`
\* holds records only.
Boxed(r) == IF r.ok THEN Ok([value |-> r.val]) ELSE r

\* The exchange of step pc[c] ended with this status (0: no response arrived)
\* and this result.
Handled(c, status, result) ==
  last' = [by |-> c, step |-> pc[c], status |-> status, result |-> result]

\* ---------------------------------------------------------------- actions

\* A caller calls token(client): it takes the lock at once, or queues.
token(c) ==
  /\ pc[c] = "idle"
  /\ \A d \in Callers : d < c => pc[d] # "idle"
  /\ UNCHANGED <<response, outcome>>
  /\ IF acquire_at_once
     THEN /\ locked_body(c)
          /\ UNCHANGED <<waiters, late>>
     ELSE /\ pc' = [pc EXCEPT ![c] = "waiting"]
          /\ waiters' = Append(waiters, c)
          /\ late' = [late EXCEPT ![c] = (InFlight # {})]
          /\ UNCHANGED <<now, locked, refresh_token, token_data, challenge, code_challenge,
                         request, sent, entry, err, ret, last>>

\* The first waiter, woken by release(), takes the lock.
acquire_wakeup(c) ==
  /\ pc[c] = "waiting"
  /\ ~locked
  /\ waiters # <<>> /\ Head(waiters) = c
  /\ waiters' = Tail(waiters)
  /\ locked_body(c)
  /\ UNCHANGED <<late, response, outcome>>

\* webapp_login resumes with the response of the authorization GET.
recv_login_page(c) ==
  /\ pc[c] = "get"
  /\ UNCHANGED <<now, entry, late, response, outcome>>
  /\ \/ Raise(c, "ClientError") /\ Handled(c, 0, Err("ClientError"))
     \/ \E resp \in AuthOutcomes :
          LET login_data == resp.result
          IN /\ Handled(c, resp.status, resp.result)
             /\ IF login_data.ok
                THEN /\ Issue(c, [kind |-> "cred",
                                  session_code |-> login_data.val.session_code,
                                  execution |-> login_data.val.execution,
                                  tab_id |-> login_data.val.tab_id])
                     /\ UNCHANGED <<refresh_token, token_data, challenge, code_challenge, waiters>>
                ELSE Raise(c, login_data.err)

recv_code_any_verifier(c) ==
  /\ pc[c] = "cred"
  /\ UNCHANGED <<now, entry, late, response, outcome>>
  /\ \/ Raise(c, "ClientError") /\ Handled(c, 0, Err("ClientError"))
     \/ \E resp \in CodeOutcomes :
          LET code == resp.result
          IN /\ Handled(c, resp.status, Boxed(resp.result))
             /\ IF code.ok
                THEN /\ \E v \in Verifiers :
                          Issue(c, [kind |-> "code", code |-> code.val, code_verifier |-> v])
                     /\ UNCHANGED <<refresh_token, token_data, challenge, code_challenge, waiters>>
                ELSE Raise(c, code.err)

\* generate_code resumes with the response of the credential POST;
\* perform_initial_login goes on to the code exchange.
recv_code(c) ==
  /\ pc[c] = "cred"
  /\ UNCHANGED <<now, entry, late, response, outcome>>
  /\ \/ Raise(c, "ClientError") /\ Handled(c, 0, Err("ClientError"))
     \/ \E resp \in CodeOutcomes :
          LET code == resp.result
          IN /\ Handled(c, resp.status, Boxed(resp.result))
             /\ IF code.ok
                THEN /\ Issue(c, [kind |-> "code", code |-> code.val,
                                  code_verifier |-> challenge[c][1].verifier])
                     /\ UNCHANGED <<refresh_token, token_data, challenge, code_challenge, waiters>>
                ELSE Raise(c, code.err)

\* generate_refresh_token resumes with the response of the code exchange;
\* token() caches the refresh token and goes on to the expiry check.
recv_refresh_token(c) ==
  /\ pc[c] = "code"
  /\ UNCHANGED <<now, entry, late, response, outcome>>
  /\ \/ Raise(c, "ClientError") /\ Handled(c, 0, Err("ClientError"))
     \/ \E resp \in RefreshTokenOutcomes :
          LET rt == resp.result
          IN /\ Handled(c, resp.status, Boxed(resp.result))
             /\ IF rt.ok
                THEN /\ refresh_token' = Some(rt.val)
                     /\ challenge' = [challenge EXCEPT ![c] = None]
                     /\ code_challenge' = [code_challenge EXCEPT ![c] = None]
                     /\ check_token(c, Some(rt.val))
                     /\ UNCHANGED <<token_data, waiters>>
                ELSE Raise(c, rt.err)

recv_token_retrying(c) ==
  /\ pc[c] = "refresh"
  /\ UNCHANGED <<now, entry, late, response, outcome>>
  /\ \/ Raise(c, "ClientError") /\ Handled(c, 0, Err("ClientError"))
     \/ \E resp \in TokenOutcomes(now) :
          LET td == resp.result
          IN /\ Handled(c, resp.status, resp.result)
             /\ IF td.ok
                THEN /\ token_data' = Some(td.val)
                     /\ Return(c, Some(td.val))
                     /\ UNCHANGED <<refresh_token, challenge, code_challenge, waiters>>
                ELSE /\ Len(sent[c]) < 6
                     /\ Issue(c, request[c])
                     /\ UNCHANGED <<refresh_token, token_data, challenge, code_challenge, waiters>>

\* generate_token resumes with the response of the refresh POST; token()
\* caches the Token, releases the lock and returns the bearer string.
recv_token(c) ==
  /\ pc[c] = "refresh"
  /\ UNCHANGED <<now, entry, late, response, outcome>>
  /\ \/ Raise(c, "ClientError") /\ Handled(c, 0, Err("ClientError"))
     \/ \E resp \in TokenOutcomes(now) :
          LET td == resp.result
          IN /\ Handled(c, resp.status, resp.result)
             /\ IF td.ok
                THEN /\ token_data' = Some(td.val)
                     /\ Return(c, Some(td.val))
                     /\ UNCHANGED <<refresh_token, challenge, code_challenge, waiters>>
                ELSE Raise(c, td.err)

\* The caller's task is cancelled while it waits for the lock or for a
\* response: CancelledError is raised at the await, the request is dropped
\* and `async with` releases the lock if the caller holds it.
cancel(c) ==
  /\ pc[c] \in {"waiting"} \cup Steps
  /\ UNCHANGED <<now, entry, late, last, response, outcome>>
  /\ IF pc[c] = "waiting"
     THEN /\ waiters' = SelectSeq(waiters, LAMBDA w : w # c)
          /\ pc' = [pc EXCEPT ![c] = "done"]
          /\ err' = [err EXCEPT ![c] = "CancelledError"]
          /\ UNCHANGED <<locked, refresh_token, token_data, challenge, code_challenge, request, sent, ret>>
     ELSE Raise(c, "CancelledError")

\* Time passes.
Tick ==
  /\ now < MaxTicks * TickStep
  /\ now' = now + TickStep
  /\ UNCHANGED <<locked, waiters, refresh_token, token_data, pc, challenge, code_challenge,
                 request, sent, entry, late, err, ret, last, response, outcome>>

Next ==
  \/ \E c \in Callers : token(c)
  \/ \E c \in Callers : acquire_wakeup(c)
  \/ \E c \in Callers : recv_login_page(c)
  \/ \E c \in Callers : recv_code(c)
  \/ \E c \in Callers : recv_refresh_token(c)
  \/ \E c \in Callers : recv_token(c)
  \/ \E c \in Callers : cancel(c)
  \/ Tick

Spec == Init /\ [][Next]_vars

\* A coroutine the event loop can resume: the woken waiter, or the lock
\* holder whose exchange has completed.  There is never more than one.
Resume ==
  \E c \in Callers :
    \/ acquire_wakeup(c)
    \/ recv_login_page(c)
    \/ recv_code(c)
    \/ recv_refresh_token(c)
    \/ recv_token(c)

\* Every HTTP exchange eventually completes and the event loop eventually
\* runs the coroutine that is ready.  Calling token(), cancelling and the
\* clock are under no obligation.
Fairness == WF_vars(Resume)

FairSpec == Init /\ [][Next]_vars /\ Fairness

\* ------------------------------------------- generate_code on its own

\* Every response the credential POST may get, handed to generate_code.
InitCode ==
  /\ now = 0
  /\ locked = FALSE
  /\ waiters = <<>>
  /\ refresh_token = None
  /\ token_data = None
  /\ pc = [c \in Callers |-> "idle"]
  /\ challenge = [c \in Callers |-> None]
  /\ code_challenge = [c \in Callers |-> None]
  /\ request = [c \in Callers |-> NoRequest]
  /\ sent = [c \in Callers |-> <<>>]
  /\ entry = [c \in Callers |-> "none"]
  /\ late = [c \in Callers |-> FALSE]
  /\ err = [c \in Callers |-> "none"]
  /\ ret = [c \in Callers |-> None]
  /\ last = NoResponse
  /\ response \in {Some(r) : r \in CodeResponses}
  /\ outcome = None

apply_generate_code ==
  /\ outcome = None
  /\ outcome' = Some(generate_code(response[1]))
  /\ UNCHANGED <<now, locked, waiters, refresh_token, token_data, pc, challenge, code_challenge,
                 request, sent, entry, late, err, ret, last, response>>

NextCode == apply_generate_code

SpecCode == InitCode /\ [][NextCode]_vars

\* ------------------------------------------ generate_token on its own

\* The times the clock can show.
Times == {k * TickStep : k \in 0..MaxTicks}

\* Every response the refresh POST may get, at every time, handed to
\* generate_token.
InitToken ==
  /\ now \in Times
  /\ locked = FALSE
  /\ waiters = <<>>
  /\ refresh_token = None
  /\ token_data = None
  /\ pc = [c \in Callers |-> "idle"]
  /\ challenge = [c \in Callers |-> None]
  /\ code_challenge = [c \in Callers |-> None]
  /\ request = [c \in Callers |-> NoRequest]
  /\ sent = [c \in Callers |-> <<>>]
  /\ entry = [c \in Callers |-> "none"]
  /\ late = [c \in Callers |-> FALSE]
  /\ err = [c \in Callers |-> "none"]
  /\ ret = [c \in Callers |-> None]
  /\ last = NoResponse
  /\ response \in {Some(r) : r \in TokenResponses}
  /\ outcome = None

apply_generate_token ==
  /\ outcome = None
  /\ outcome' = Some(generate_token(response[1], now))
  /\ UNCHANGED <<now, locked, waiters, refresh_token, token_data, pc, challenge, code_challenge,
                 request, sent, entry, late, err, ret, last, response>>

NextToken == apply_generate_token

SpecToken == InitToken /\ [][NextToken]_vars

\* -------------------------------------- extract_login_data on its own

\* Login pages whose form action may repeat a key or leave its value blank.
LoginPages ==
  {[form |-> FALSE, action |-> None], [form |-> TRUE, action |-> None]}
  \cup {[form |-> TRUE, action |-> Some(q)] :
          q \in Queries({"session_code", "execution", "tab_id"}, MaxPairs)}

\* Every such page, handed to extract_login_data.
InitPage ==
  /\ now = 0
  /\ locked = FALSE
  /\ waiters = <<>>
  /\ refresh_token = None
  /\ token_data = None
  /\ pc = [c \in Callers |-> "idle"]
  /\ challenge = [c \in Callers |-> None]
  /\ code_challenge = [c \in Callers |-> None]
  /\ request = [c \in Callers |-> NoRequest]
  /\ sent = [c \in Callers |-> <<>>]
  /\ entry = [c \in Callers |-> "none"]
  /\ late = [c \in Callers |-> FALSE]
  /\ err = [c \in Callers |-> "none"]
  /\ ret = [c \in Callers |-> None]
  /\ last = NoResponse
  /\ response \in {Some(p) : p \in LoginPages}
  /\ outcome = None

apply_extract_login_data ==
  /\ outcome = None
  /\ outcome' = Some(extract_login_data(response[1]))
  /\ UNCHANGED <<now, locked, waiters, refresh_token, token_data, pc, challenge, code_challenge,
                 request, sent, entry, late, err, ret, last, response>>

NextPage == apply_extract_login_data

SpecPage == InitPage /\ [][NextPage]_vars

\* ------------------------------------------------------------------ claims

TransportErrors == {"ClientError", "ClientResponseError"}
CallErrors == {"InvalidAuth", "InvalidResponse"} \cup TransportErrors

\* How many requests of kind k the calls made so far have issued.
Count(k) ==
  Cardinality(UNION {{<<c, i>> : i \in {j \in DOMAIN sent[c] : sent[c][j] = k}} : c \in Callers})

\* C1: whatever the number of concurrent callers of token() and their
\* interleaving, at most one HTTP request of the instance (authorization GET,
\* credential POST, code-exchange POST or refresh POST) is in flight.
C1_OneRequestInFlight == Cardinality(InFlight) <= 1

\* C1, its case: a request is in flight while another caller queues.
C1_Witness ==
  \E c, d \in Callers : c # d /\ request[c].kind = "refresh" /\ pc[d] = "waiting"

\* C2: token() never returns the bearer string of a Token whose expiration is
\* at or before the current time; the returned Token is the cached one, and
\* it was either found unexpired or regenerated by this call's refresh
\* exchange while it held the lock.
C2_NeverReturnsExpired ==
  [][\A c \in Callers :
       (pc[c] # "done" /\ pc'[c] = "done" /\ err'[c] = "none") =>
         /\ token_data' # None
         /\ ret'[c] = Some(token_data'[1].token)
         /\ now' < token_data'[1].expiration
         /\ \/ pc[c] = "refresh" /\ locked
            \/ /\ token_data' = token_data
               /\ token_data # None
               /\ now < token_data[1].expiration]_vars

\* C2, its case: a call found the cached Token expired and returned.
C2_Witness ==
  \E c \in Callers :
    /\ pc[c] = "done" /\ ret[c] # None
    /\ entry[c] = "expired"
    /\ sent[c] = <<"refresh">>

\* C3: concurrent callers never trigger duplicate login or refresh
\* exchanges: a caller that arrived while another caller's exchange was in
\* flight, and finds that exchange's Token cached and unexpired when it takes
\* the lock, issues no request of its own and returns that Token.
C3_NoDuplicateExchange ==
  \A c \in Callers :
    (late[c] /\ entry[c] = "valid") =>
      (sent[c] = <<>> /\ pc[c] = "done" /\ ret[c] # None)

\* C4: a failing call commits no partial state: the refresh token is
\* overwritten only when the code exchange succeeded and the Token only when
\* the refresh exchange succeeded; a failed call leaves both caches as they
\* were, and a failed login chain leaves both caches absent.
C4_NoPartialState ==
  [][/\ \A c \in Callers :
          (pc[c] # "done" /\ pc'[c] = "done" /\ err'[c] \in CallErrors) =>
            /\ refresh_token' = refresh_token
            /\ token_data' = token_data
            /\ pc[c] \in LoginSteps => (~truthy(refresh_token') /\ token_data' = None)
     /\ refresh_token' # refresh_token =>
          \E c \in Callers : pc[c] = "code" /\ err'[c] = "none"
     /\ token_data' # token_data =>
          \E c \in Callers : pc[c] = "refresh" /\ ret'[c] = Some(token_data'[1].token)]_vars

\* C5: the lock is released on every exit path: it is held only while a call
\* is inside the guarded section, never after a call has returned or raised,
\* and once no call holds it the first waiter can take it.
C5_LockReleased ==
  /\ locked <=> Holders # {}
  /\ \A c \in Callers : pc[c] = "done" => request[c].kind = "none"
  /\ (Holders = {} /\ waiters # <<>>) => ENABLED acquire_wakeup(Head(waiters))

\* C5, its case: a call raised while another queued behind it, and the
\* waiter has taken the lock since.
C5_Witness ==
  \E c, d \in Callers :
    /\ c # d
    /\ err[c] \in CallErrors
    /\ late[d] /\ pc[d] \in Steps /\ locked

\* C6: on a fresh instance where every exchange succeeds, two calls of which
\* the second finds the first one's Token unexpired issue in total one
\* authorization GET, one credential POST, one code-exchange POST and one
\* refresh POST; the second call issues nothing and returns the same bearer
\* string.
C6_TwoCallsOneChain ==
  \A c, d \in Callers :
    (/\ c # d
     /\ \A e \in Callers \ {c, d} : pc[e] = "idle"
     /\ ret[c] # None /\ ret[d] # None
     /\ entry[c] = "absent" /\ entry[d] = "valid")
    => /\ \A k \in Steps : Count(k) = 1
       /\ sent[d] = <<>>
       /\ ret[c] = ret[d]

\* C7: a call that finds a Token cached and expired issues one refresh
\* exchange and none of the login-chain requests, and on success returns the
\* new Token.
C7_ExpiredRefreshOnly ==
  \A c \in Callers :
    entry[c] = "expired" =>
      /\ sent[c] = <<"refresh">>
      /\ (pc[c] = "done" /\ err[c] = "none") => ret[c] # None

\* C8: once a login chain has succeeded (the refresh token is cached), no
\* call starts the login chain again and the cached refresh token never
\* changes, whatever value the token endpoint returned for it.
C8_LoginOnce ==
  [][refresh_token # None =>
       /\ refresh_token' = refresh_token
       /\ \A c \in Callers : pc'[c] = "get" => pc[c] = "get"]_vars

\* C9 as stated: at every step a response whose status is not 2xx (the
\* credential POST's 302 apart) ends the call with the transport's error.
C9_AsStated ==
  (/\ last.step \in Steps
   /\ last.status # 0
   /\ last.status \notin 200..299
   /\ ~(last.step = "cred" /\ last.status = 302))
  => (pc[last.by] = "done" /\ err[last.by] \in TransportErrors)

\* C9, amended: at the authorization GET, the code exchange and the refresh
\* POST a status of 400 or more ends the call with the transport's
\* ClientResponseError; at the credential POST every status other than 302
\* ends it with InvalidResponse.
C9_StatusErrors ==
  /\ (last.step \in {"get", "code", "refresh"} /\ last.status >= 400) =>
       (pc[last.by] = "done" /\ err[last.by] = "ClientResponseError")
  /\ (last.step = "cred" /\ last.status \notin {0, 302}) =>
       (pc[last.by] = "done" /\ err[last.by] = "InvalidResponse")

\* C9, its case: one call ended on a credential POST answered other than
\* 302, another on a refresh POST answered 404.
C9_Witness ==
  \E c, d \in Callers :
    /\ err[c] = "InvalidResponse" /\ sent[c] = <<"get", "cred">>
    /\ last.by = d /\ last.step = "refresh" /\ last.status = 404
    /\ err[d] = "ClientResponseError"

\* The values of the non-blank `code` parameters of a Location header.
CodeValues(location) ==
  IF location = None THEN <<>>
  ELSE SelectSeq(location[1], LAMBDA p : p.k = "code" /\ p.v # "")

HasCodeParameter(location) ==
  location # None /\ \E i \in DOMAIN location[1] : location[1][i].k = "code"

\* C10 as stated: a status other than 302 gives InvalidResponse; 302 with a
\* `code` parameter in the Location query string returns a value of it; 302
\* without a `code` parameter gives InvalidAuth.
C10_AsStated ==
  outcome # None =>
    LET r == response[1]
        o == outcome[1]
    IN /\ r.status # 302 => (~o.ok /\ o.err = "InvalidResponse")
       /\ (r.status = 302 /\ HasCodeParameter(r.location)) => o.ok
       /\ (r.status = 302 /\ ~HasCodeParameter(r.location)) => (~o.ok /\ o.err = "InvalidAuth")

\* C10, amended: a status other than 302 gives InvalidResponse whatever the
\* headers; 302 with a non-blank `code` parameter returns the first such
\* value; 302 with no Location header, no `code` parameter or only blank
\* ones gives InvalidAuth.
C10_Classification ==
  outcome # None =>
    LET r == response[1]
        o == outcome[1]
        codes == CodeValues(r.location)
    IN /\ r.status # 302 => (~o.ok /\ o.err = "InvalidResponse")
       /\ (r.status = 302 /\ codes # <<>>) => (o.ok /\ o.val = codes[1].v)
       /\ (r.status = 302 /\ codes = <<>>) => (~o.ok /\ o.err = "InvalidAuth")

\* C10, its case: a 302 whose Location holds a blank `code` and then
\* `code=B` was classified.
C10_Witness ==
  /\ outcome # None
  /\ response[1].status = 302
  /\ response[1].location = Some(<<[k |-> "code", v |-> ""], [k |-> "code", v |-> "B"]>>)
  /\ outcome[1].ok

\* C11: generate_token, on a response with a success status and a JSON body,
\* returns the Token of the body's `id_token` with expiration = the clock at
\* issuance + 118 seconds when `id_token` is there, and raises
\* InvalidResponse when it is missing; the expiration is the fixed offset
\* whatever else the response holds.
C11_TokenOrInvalidResponse ==
  outcome # None =>
    LET r == response[1]
        o == outcome[1]
    IN /\ (r.status \in 200..299 /\ r.json # None) =>
            IF "id_token" \in DOMAIN r.json[1]
            THEN o = Ok([token |-> r.json[1]["id_token"], expiration |-> now + 118])
            ELSE o = Err("InvalidResponse")
       /\ o.ok => o.val.expiration = now + 118

\* C11, its case: a 200 whose JSON holds `id_token` and `refresh_token` was
\* read at a time other than 0, and a Token came out.
C11_Witness ==
  /\ outcome # None /\ outcome[1].ok
  /\ now > 0
  /\ response[1].status = 200
  /\ response[1].json # None
  /\ DOMAIN response[1].json[1] = {"id_token", "refresh_token"}

\* The values key k has in the query string of a form action, blank ones
\* included, and the non-blank ones, in order.
ActionValues(action, k) == SelectSeq(action[1], LAMBDA p : p.k = k)
NonBlankValues(action, k) == SelectSeq(action[1], LAMBDA p : p.k = k /\ p.v # "")

\* C12 as stated: with the form, its action and all three keys present the
\* extraction returns values the query string gives these keys; with the
\* form, the action or one of the keys missing it raises InvalidResponse.
C12_AsStated ==
  outcome # None =>
    LET p == response[1]
        o == outcome[1]
        complete == /\ p.form /\ p.action # None
                    /\ \A k \in {"session_code", "execution", "tab_id"} : ActionValues(p.action, k) # <<>>
    IN IF complete
       THEN /\ o.ok
            /\ \A k \in {"session_code", "execution", "tab_id"} :
                  \E i \in DOMAIN ActionValues(p.action, k) : ActionValues(p.action, k)[i].v = o.val[k]
       ELSE o = Err("InvalidResponse")

\* C12, amended: with the form, its action and a non-blank value for each of
\* the three keys the extraction returns the first non-blank value of each
\* key; with the form or the action missing, or a key missing or given only
\* blank values, it raises InvalidResponse.
C12_Extraction ==
  outcome # None =>
    LET p == response[1]
        o == outcome[1]
        complete == /\ p.form /\ p.action # None
                    /\ \A k \in {"session_code", "execution", "tab_id"} : NonBlankValues(p.action, k) # <<>>
    IN IF complete
       THEN o = Ok([session_code |-> NonBlankValues(p.action, "session_code")[1].v,
                    execution |-> NonBlankValues(p.action, "execution")[1].v,
                    tab_id |-> NonBlankValues(p.action, "tab_id")[1].v])
       ELSE o = Err("InvalidResponse")

\* C12, its case: the data of a form action that gives session_code a blank
\* value first and another value later came out.
C12_Witness ==
  /\ outcome # None /\ outcome[1].ok
  /\ response[1].action # None
  /\ Len(response[1].action[1]) = 4
  /\ response[1].action[1][1] = [k |-> "session_code", v |-> ""]
  /\ outcome[1].val.session_code = "B"

\* Code-exchange responses with a success status whose JSON has no
\* `refresh_token`.
LackingRefreshToken ==
  {r \in TokenResponses :
     r.status \in 200..299 /\ r.json # None /\ "refresh_token" \notin DOMAIN r.json[1]}

\* C13: when the code exchange of the first login is answered with a
\* success status and a JSON without `refresh_token`, the call ends with
\* InvalidResponse, the refresh token stays absent and the call issues no
\* refresh POST.  (The exchange a caller handles is known by its status and
\* by what generate_refresh_token makes of the response.)
C13_MissingRefreshToken ==
  [][\A c \in Callers : \A r \in LackingRefreshToken :
       (/\ pc[c] = "code"
        /\ refresh_token = None
        /\ last' = [by |-> c, step |-> "code", status |-> r.status,
                    result |-> Boxed(generate_refresh_token(r))])
       => /\ pc'[c] = "done"
          /\ err'[c] = "InvalidResponse"
          /\ refresh_token' = None
          /\ token_data' = token_data
          /\ request'[c] = NoRequest
          /\ sent'[c] = <<"get", "cred", "code">>]_vars

\* C13, its case: the first login's code exchange was answered 200 without
\* `refresh_token` and the call has ended, another caller waiting behind it.
C13_Witness ==
  \E c, d \in Callers :
    /\ last = [by |-> c, step |-> "code", status |-> 200, result |-> Err("InvalidResponse")]
    /\ err[c] = "InvalidResponse"
    /\ entry[c] = "absent" /\ refresh_token = None
    /\ pc[d] = "waiting"

\* C14: a call issues the refresh POST if and only if, at the check it makes
\* under the lock, no Token is cached or the cached Token's expiration is at
\* or before the current time; a call that takes the lock with a refresh
\* token cached and a Token whose expiration is later than the current time
\* issues no request at all and returns that Token.
C14_RefreshIffExpired ==
  [][\A c \in Callers :
       /\ (/\ pc[c] \in {"idle", "waiting", "code"}
           /\ pc'[c] = "refresh" \/ (pc'[c] = "done" /\ err'[c] = "none"))
          => (pc'[c] = "refresh" <=> (token_data = None \/ token_data[1].expiration <= now))
       /\ (pc'[c] = "refresh" /\ pc[c] # "refresh") => pc[c] \in {"idle", "waiting", "code"}
       /\ (/\ entry[c] = "none" /\ entry'[c] # "none"
           /\ refresh_token # None
           /\ token_data # None /\ token_data[1].expiration > now)
          => (sent'[c] = <<>> /\ pc'[c] = "done" /\ ret'[c] = Some(token_data[1].token))]_vars

\* The requests of a first use, in order.
LoginOrder == <<"get", "cred", "code", "refresh">>

\* C15: a call that finds no refresh token generates the challenge and
\* issues the authorization GET, and a call that started with the GET issues
\* credential POST, code-exchange POST and refresh POST in this order, each
\* in the step in which the response of the one before it arrived with a
\* passing status and was parsed successfully.
C15_RequestOrder ==
  [][\A c \in Callers :
       /\ (entry[c] = "none" /\ entry'[c] # "none" /\ refresh_token = None)
          => /\ sent'[c] = <<"get">>
             /\ challenge'[c] # None
             /\ challenge'[c][1] \in generate_challenge_data
             /\ request'[c] = [kind |-> "get", code_challenge |-> challenge'[c][1].challenge]
       /\ (sent'[c] # sent[c] /\ sent'[c][1] = "get")
          => LET k == Len(sent[c])
             IN /\ k < Len(LoginOrder)
                /\ sent'[c] = SubSeq(LoginOrder, 1, k + 1)
                /\ request'[c].kind = LoginOrder[k + 1]
                /\ k > 0 =>
                     /\ pc[c] = LoginOrder[k] /\ request[c].kind = LoginOrder[k]
                     /\ last' = [by |-> c, step |-> LoginOrder[k],
                                 status |-> last'.status, result |-> last'.result]
                     /\ last'.result.ok
                     /\ IF LoginOrder[k] = "cred" THEN last'.status = 302
                        ELSE last'.status \in 200..399]_vars

\* C15, its case: a first use went through all four requests and returned.
C15_Witness ==
  \E c \in Callers :
    /\ entry[c] = "absent"
    /\ sent[c] = LoginOrder
    /\ pc[c] = "done" /\ ret[c] # None

\* How often a call has issued the request of kind k.
Issued(c, k) == Cardinality({i \in DOMAIN sent[c] : sent[c][i] = k})

\* C16: a call issues each of the four requests at most once, and an
\* exchange that fails ends the call with that failure's error in the very
\* step that handles it, after which the call issues nothing more.
C16_NoRetry ==
  [][\A c \in Callers :
       /\ \A k \in Steps : Issued(c, k)' <= 1
       /\ (last'.by = c /\ ~last'.result.ok)
          => /\ pc'[c] = "done"
             /\ err'[c] = last'.result.err
             /\ request'[c] = NoRequest
             /\ sent'[c] = sent[c]
       /\ pc[c] = "done"
          => /\ pc'[c] = "done"
             /\ err'[c] = err[c] /\ ret'[c] = ret[c]
             /\ request'[c] = NoRequest
             /\ sent'[c] = sent[c]]_vars

\* C16, its case: a call failed at its refresh POST, having issued the four
\* requests once each, and another call has issued a request since.
C16_Witness ==
  \E c, d \in Callers :
    /\ c # d
    /\ sent[c] = LoginOrder /\ err[c] \in CallErrors
    /\ sent[d] # <<>>

\* The step at which a call failed.
FailedAt(c) ==
  IF pc[c] = "done" /\ err[c] \in CallErrors /\ sent[c] # <<>>
  THEN sent[c][Len(sent[c])] ELSE "none"

\* C17: the call that takes the lock next after a failed call re-attempts
\* the step that failed: after a failure in the login chain it starts with
\* the authorization GET; after a failure of the refresh POST, the login
\* chain having succeeded, it issues the refresh POST with the cached
\* refresh token and none of the login-chain requests.
C17_RetrySameStep ==
  \A c, d \in Callers :
    (d = c + 1 /\ entry[d] # "none") =>
      /\ FailedAt(c) \in LoginSteps => sent[d][1] = "get"
      /\ FailedAt(c) = "refresh" =>
           /\ sent[d] = <<"refresh">>
           /\ request[d].kind = "refresh" => request[d].refresh_token = refresh_token[1]

\* C18: the credential POST carries the session_code, execution and tab_id
\* extracted from the login page this call has just received, and the
\* code-exchange POST carries the code_verifier of the PKCE pair whose
\* code_challenge this call put in its own authorization GET.
C18_AttemptDataThreaded ==
  [][\A c \in Callers :
       /\ (pc[c] = "get" /\ pc'[c] = "cred")
          => /\ last'.by = c /\ last'.step = "get" /\ last'.result.ok
             /\ request'[c] = [kind |-> "cred",
                               session_code |-> last'.result.val.session_code,
                               execution |-> last'.result.val.execution,
                               tab_id |-> last'.result.val.tab_id]
       /\ (pc[c] # "get" /\ pc'[c] = "get")
          => /\ code_challenge'[c] # None
             /\ request'[c].code_challenge = code_challenge'[c][1]
       /\ (pc[c] = "get" /\ pc'[c] # "done") => code_challenge'[c] = code_challenge[c]
       /\ (pc[c] = "cred" /\ pc'[c] = "code")
          => /\ code_challenge[c] # None
             /\ [challenge |-> code_challenge[c][1], verifier |-> request'[c].code_verifier]
                  \in generate_challenge_data]_vars

\* C18, its case: after another call's login attempt failed, a call whose
\* GET carried the second pair's challenge has sent the code-exchange POST.
C18_Witness ==
  \E c, d \in Callers :
    /\ FailedAt(c) \in LoginSteps
    /\ pc[d] = "code"
    /\ code_challenge[d] = Some("c2")
    /\ request[d].code_verifier = "v2"

\* C19: a caller whose call is cancelled while it holds the lock does not
\* release the lock; the lock is released only in a step in which the
\* holder's guarded sequence completes (the call returns) or raises one of
\* its errors.
C19_CancelKeepsLock ==
  [][/\ \A c \in Callers :
          (pc[c] \in Steps /\ err[c] = "none" /\ err'[c] = "CancelledError") => locked'
     /\ (locked /\ ~locked')
          => \E c \in Callers :
               /\ pc[c] \in Steps /\ pc'[c] = "done"
               /\ ret'[c] # None \/ err'[c] \in CallErrors]_vars

C21_ReturnsCachedAtRelease ==
  [][/\ \A c \in Callers :
          /\ (ret[c] = None /\ ret'[c] # None)
             => /\ pc[c] \in {"idle", "waiting", "code", "refresh"} /\ pc'[c] = "done"
                /\ ~locked'
                /\ token_data' # None
                /\ ret'[c] = Some(token_data'[1].token)
                /\ \A d \in Callers \ {c} : pc'[d] = pc[d] /\ ret'[d] = ret[d]
          /\ ret[c] # None => ret'[c] = ret[c]
     /\ token_data # None => token_data' # None]_vars

\* C21, its case: a call returned one bearer string while another call
\* queued behind it, and that call has since refreshed the cache and
\* returned another.
C21_Witness ==
  \E c, d \in Callers :
    /\ late[d]
    /\ ret[c] = Some("A") /\ ret[d] = Some("B")
    /\ token_data # None /\ token_data[1].token = "B"

====
